---------------------------- MODULE Spec2Model ----------------------------
(***************************************************************************)
(* Verification model of the stock-surge-predictor backend.                *)
(*                                                                         *)
(*   Spec       the surge classifier's shared state (models/predictor.py): *)
(*              concurrent train_model and predict_surge calls over the    *)
(*              module globals _model, _training_in_progress, _model_lock  *)
(*              and the pickle file at MODEL_PATH.                         *)
(*                                                                         *)
(* Every request handler of main.py is a plain "def", so the web framework *)
(* runs each request on a worker thread: calls interleave between any two  *)
(* accesses to a global or to the file.  Each action below is one such     *)
(* access together with the local computation around it.                   *)
(***************************************************************************)
EXTENDS Integers, Sequences, FiniteSets, TLC

(***************************************************************************)
(* Bounds of the model.                                                    *)
(***************************************************************************)
NumTrainers == 2      \* concurrent callers of train_model
NumReaders == 1       \* concurrent callers of predict_surge
MaxModels == 2        \* classifiers fitted in one behaviour (id 1 is the
                      \* artifact found on disk at start-up, if any)

NumTickers == 3       \* candidate tickers of a refresh
MaxWorkers == 2       \* largest max_workers of a refresh

Tickers == 1..NumTickers
Trainers == 1..NumTrainers
Readers == (NumTrainers + 1)..(NumTrainers + NumReaders)

(***************************************************************************)
(* Scores are kept in fixed point: Point units make one score point, so    *)
(* that a value with up to four decimals is an integer.  round(x, 1) is    *)
(* decided on the decimal value, an exact tie going to the even tenth.     *)
(***************************************************************************)
Point == 10000

Max(a, b) == IF a >= b THEN a ELSE b
Min(a, b) == IF a <= b THEN a ELSE b

RoundHalfEven(n, d) ==
  LET q == n \div d
      r == n % d
  IN  IF 2 * r < d THEN q
      ELSE IF 2 * r > d THEN q + 1
      ELSE IF q % 2 = 0 THEN q ELSE q + 1

\* Python round(x, 1) on a fixed-point value.
Round1(x) == RoundHalfEven(x, Point \div 10) * (Point \div 10)

(***************************************************************************)
(* Price histories.  A DataFrame is its Close and Volume columns (one      *)
(* entry per daily bar, oldest first) and the last two values of the MACD  *)
(* histogram in thousandths: the three nested exponential averages of      *)
(* calculate_macd are binary floating point over the whole column and are  *)
(* not recomputed here, every other indicator is computed from the         *)
(* columns.  fetch_stock_data never returns an empty frame (it returns     *)
(* None instead), so None is the frame without bars.                       *)
(***************************************************************************)
NoneDF == [Close |-> <<>>, Volume |-> <<>>, histogram |-> <<0, 0>>]

len(df) == Len(df.Close)

\* s.iloc[-k]
iloc(s, k) == s[Len(s) - k + 1]

RECURSIVE SumRange(_, _, _)
SumRange(s, i, j) == IF i > j THEN 0 ELSE s[i] + SumRange(s, i + 1, j)

\* s.iloc[-k:].sum(), the slice being the whole column when it is shorter.
SumLast(s, k) == SumRange(s, Max(1, Len(s) - k + 1), Len(s))

RECURSIVE SumSqRange(_, _, _)
SumSqRange(s, i, j) == IF i > j THEN 0 ELSE s[i] * s[i] + SumSqRange(s, i + 1, j)

RECURSIVE MaxRange(_, _, _)
MaxRange(s, i, j) == IF i >= j THEN s[j] ELSE Max(s[i], MaxRange(s, i + 1, j))

RECURSIVE MinRange(_, _, _)
MinRange(s, i, j) == IF i >= j THEN s[j] ELSE Min(s[i], MinRange(s, i + 1, j))

(***************************************************************************)
(* analyzers/technical.py                                                  *)
(***************************************************************************)

\* calculate_rsi, last value: the rolling means of the gains and of the
\* losses over the last 14 differences (both share the divisor 14, so the
\* sums are kept); a zero mean loss is replaced by NaN.
RECURSIVE GainSum(_, _, _)
GainSum(s, i, j) ==
  IF i > j THEN 0
  ELSE (IF i > 1 /\ s[i] > s[i - 1] THEN s[i] - s[i - 1] ELSE 0) + GainSum(s, i + 1, j)

RECURSIVE LossSum(_, _, _)
LossSum(s, i, j) ==
  IF i > j THEN 0
  ELSE (IF i > 1 /\ s[i] < s[i - 1] THEN s[i - 1] - s[i] ELSE 0) + LossSum(s, i + 1, j)

calculate_rsi(df) ==
  LET n == len(df)
      g == GainSum(df.Close, Max(1, n - 13), n)
      l == LossSum(df.Close, Max(1, n - 13), n)
  IN  [nan |-> (n < 14 \/ l = 0), gain |-> g, loss |-> l]

\* rsi < k and rsi > k for rsi = 100 - 100 / (1 + gain / loss); a comparison
\* with NaN is false.
RsiBelow(rsi, k) == ~rsi.nan /\ 100 * rsi.gain < k * (rsi.gain + rsi.loss)
RsiAbove(rsi, k) == ~rsi.nan /\ 100 * rsi.gain > k * (rsi.gain + rsi.loss)

\* calculate_macd: histogram.iloc[-2] and histogram.iloc[-1].
calculate_macd(df) == [prev |-> df.histogram[1], current |-> df.histogram[2]]

\* calculate_bollinger_bands at the last bar, period 20, 2 sample standard
\* deviations.  With S the sum and Q the sum of squares of the last 20 closes
\* the mean is S/20 and the variance (20Q - S*S)/380; dev is 20 times the
\* distance of the last close from the mean.
calculate_bollinger_bands(df) ==
  LET n == len(df)
      S == SumLast(df.Close, 20)
      Q == SumSqRange(df.Close, Max(1, n - 19), n)
  IN  [nan |-> n < 20, dev |-> 20 * iloc(df.Close, 1) - S, var380 |-> 20 * Q - S * S]

\* bb_position = (close - lower) / (upper - lower + 1e-10) < 0.1, that is
\* close - mean < -1.6 sigma + 1e-11; and > 0.9, close - mean > 1.6 sigma + 9e-11.
BbNearLower(bb) ==
  \/ bb.var380 = 0
  \/ bb.dev < 0 /\ 95 * bb.dev * bb.dev >= 256 * bb.var380
BbNearUpper(bb) ==
  bb.dev > 0 /\ 95 * bb.dev * bb.dev > 256 * bb.var380

\* calculate_volume_ratio: a ratio is kept as numerator and denominator.
Ratio(n, d) == [num |-> n, den |-> d]
RatioAbove(r, p, q) == r.num * q > p * r.den      \* r > p/q

calculate_volume_ratio(df) ==
  IF len(df) < 20 THEN Ratio(1, 1)
  ELSE IF SumLast(df.Volume, 20) = 0 THEN Ratio(1, 1)
  ELSE Ratio(20 * iloc(df.Volume, 1), SumLast(df.Volume, 20))

\* calculate_obv up to bar i (the first bar is 0).
RECURSIVE calculate_obv(_, _)
calculate_obv(df, i) ==
  IF i <= 1 THEN 0
  ELSE IF df.Close[i] > df.Close[i - 1] THEN calculate_obv(df, i - 1) + df.Volume[i]
  ELSE IF df.Close[i] < df.Close[i - 1] THEN calculate_obv(df, i - 1) - df.Volume[i]
  ELSE calculate_obv(df, i - 1)

Signal(type, indicator, message) ==
  [type |-> type, indicator |-> indicator, message |-> message]

\* Each rule of analyze_technical: the points it adds and the signals it appends.
Rule(points, signals) == [points |-> points, signals |-> signals]
NoRule == Rule(0, <<>>)

RsiRule(df) ==
  LET current_rsi == calculate_rsi(df)
  IN  IF RsiBelow(current_rsi, 30)
        THEN Rule(15, <<Signal("bullish", "RSI", "RSI oversold")>>)
      ELSE IF RsiBelow(current_rsi, 40)
        THEN Rule(8, <<Signal("bullish", "RSI", "RSI approaching oversold")>>)
      ELSE IF RsiAbove(current_rsi, 70)
        THEN Rule(0 - 10, <<Signal("bearish", "RSI", "RSI overbought")>>)
      ELSE NoRule

\* The crossover test without the previous bar.
MacdRuleIgnoresPrevious(df) ==
  IF len(df) >= 2 /\ calculate_macd(df).current > 0
    THEN Rule(15, <<Signal("bullish", "MACD", "MACD bullish crossover")>>)
  ELSE NoRule

MacdRule(df) ==
  LET current_hist == calculate_macd(df).current
      prev_hist == calculate_macd(df).prev
  IN  IF len(df) < 2 THEN NoRule
      ELSE IF current_hist > 0 /\ prev_hist <= 0
        THEN Rule(15, <<Signal("bullish", "MACD", "MACD bullish crossover")>>)
      ELSE IF current_hist > prev_hist /\ current_hist > 0
        THEN Rule(8, <<Signal("bullish", "MACD", "MACD momentum increasing")>>)
      ELSE NoRule

BollingerRule(df) ==
  LET bb == calculate_bollinger_bands(df)
  IN  IF bb.nan THEN NoRule
      ELSE IF BbNearLower(bb)
        THEN Rule(12, <<Signal("bullish", "Bollinger", "Price near lower Bollinger Band")>>)
      ELSE IF BbNearUpper(bb)
        THEN Rule(0 - 5, <<Signal("bearish", "Bollinger", "Price near upper Bollinger Band")>>)
      ELSE NoRule

\* The volume tests as independent ifs instead of an if/elif chain.
VolumeRuleWithoutElif(df) ==
  LET vol_ratio == calculate_volume_ratio(df)
      surge == IF RatioAbove(vol_ratio, 3, 1)
                 THEN Rule(15, <<Signal("bullish", "Volume", "Volume surge")>>) ELSE NoRule
      high == IF RatioAbove(vol_ratio, 2, 1)
                THEN Rule(10, <<Signal("bullish", "Volume", "High volume")>>) ELSE NoRule
      above == IF RatioAbove(vol_ratio, 3, 2)
                 THEN Rule(5, <<Signal("neutral", "Volume", "Above avg volume")>>) ELSE NoRule
  IN  Rule(surge.points + high.points + above.points,
           surge.signals \o high.signals \o above.signals)

VolumeRule(df) ==
  LET vol_ratio == calculate_volume_ratio(df)
  IN  IF RatioAbove(vol_ratio, 3, 1)
        THEN Rule(15, <<Signal("bullish", "Volume", "Volume surge")>>)
      ELSE IF RatioAbove(vol_ratio, 2, 1)
        THEN Rule(10, <<Signal("bullish", "Volume", "High volume")>>)
      ELSE IF RatioAbove(vol_ratio, 3, 2)
        THEN Rule(5, <<Signal("neutral", "Volume", "Above avg volume")>>)
      ELSE NoRule

ObvRule(df) ==
  LET n == len(df)
  IN  IF n < 5 THEN NoRule
      ELSE IF calculate_obv(df, n) - calculate_obv(df, n - 4) > 0
        THEN Rule(5, <<Signal("bullish", "OBV", "OBV trending up")>>)
      ELSE NoRule

\* momentum = (Close.iloc[-1] / Close.iloc[-5] - 1) * 100 > 5
MomentumRule(df) ==
  IF len(df) < 5 THEN NoRule
  ELSE IF 100 * iloc(df.Close, 1) > 105 * iloc(df.Close, 5)
    THEN Rule(8, <<Signal("bullish", "Momentum", "5-day momentum")>>)
  ELSE NoRule

EmptyDict == [k \in {} |-> 0]

\* The clamp without its upper bound.
ClampWithoutMin(score) == Max(0, score)

\* score = max(0, min(100, score))
Clamp(score) == Max(0, Min(100 * Point, score))

\* The neutral starting score returned for a short history.
analyze_technical_neutral_when_short(df) ==
  IF len(df) < 30
    THEN [score |-> 50 * Point, signals |-> <<>>, indicators |-> EmptyDict]
  ELSE
    [score |-> Round1(Clamp((50 + RsiRule(df).points + MacdRule(df).points
                                + BollingerRule(df).points + VolumeRule(df).points
                                + ObvRule(df).points + MomentumRule(df).points) * Point)),
     signals |-> RsiRule(df).signals \o MacdRule(df).signals \o BollingerRule(df).signals
                   \o VolumeRule(df).signals \o ObvRule(df).signals
                   \o MomentumRule(df).signals,
     indicators |-> [rsi |-> calculate_rsi(df),
                     macd_histogram |-> calculate_macd(df).current,
                     volume_ratio |-> calculate_volume_ratio(df),
                     current_price |-> iloc(df.Close, 1)]]

analyze_technical(df) ==
  IF len(df) < 30
    THEN [score |-> 0, signals |-> <<>>, indicators |-> EmptyDict]
  ELSE
    LET rules == <<RsiRule(df), MacdRule(df), BollingerRule(df),
                   VolumeRule(df), ObvRule(df), MomentumRule(df)>>
        score == 50 + rules[1].points + rules[2].points + rules[3].points
                    + rules[4].points + rules[5].points + rules[6].points
    IN  [score |-> Round1(Clamp(score * Point)),
         signals |-> rules[1].signals \o rules[2].signals \o rules[3].signals
                       \o rules[4].signals \o rules[5].signals \o rules[6].signals,
         indicators |-> [rsi |-> calculate_rsi(df),
                         macd_histogram |-> calculate_macd(df).current,
                         volume_ratio |-> calculate_volume_ratio(df),
                         current_price |-> iloc(df.Close, 1)]]

(***************************************************************************)
(* analyzers/sentiment.py.  What a provider answers is a payload: whether  *)
(* the request worked, how many texts it returned and their mean VADER     *)
(* compound polarity in units of 1/Point (between -Point and Point).       *)
(***************************************************************************)
EMPTY_NEWS == [score |-> 50 * Point, headline_count |-> 0, source |-> "none"]
EMPTY_SOCIAL == [score |-> 50 * Point, mention_count |-> 0, source |-> "none"]

\* _score_headlines: normalized = round((avg + 1) * 50, 1)
score_headlines(avg) == Round1((avg + Point) * 50)

\* analyze_yfinance_news, analyze_finviz_news, analyze_newsapi: any error,
\* bad status or empty list is the EMPTY_NEWS sentinel.
analyze_news(source, payload) ==
  IF ~payload.ok \/ payload.count = 0 THEN EMPTY_NEWS
  ELSE [score |-> score_headlines(payload.avg),
        headline_count |-> payload.count,
        source |-> source]

\* analyze_stocktwits: the VADER score blended 50/50 with the share of
\* messages labelled Bullish when any message is labelled.
analyze_stocktwits(payload) ==
  IF payload.status = "error" THEN [EMPTY_SOCIAL EXCEPT !.source = "stocktwits_error"]
  ELSE IF payload.status = "http" THEN EMPTY_SOCIAL
  ELSE IF payload.count = 0 THEN [EMPTY_SOCIAL EXCEPT !.source = "stocktwits"]
  ELSE
    LET vader_normalized == (payload.avg + Point) * 50
        total_labeled == payload.bullish + payload.bearish
        blended == IF total_labeled > 0
                     THEN (vader_normalized
                           + (payload.bullish * 100 * Point) \div total_labeled) \div 2
                     ELSE vader_normalized
    IN  [score |-> Round1(blended), mention_count |-> payload.count,
         source |-> "stocktwits"]

\* analyze_reddit_sentiment
analyze_reddit_sentiment(payload) ==
  IF payload.status = "error" THEN [EMPTY_SOCIAL EXCEPT !.source = "reddit_error"]
  ELSE IF payload.status = "http" THEN [EMPTY_SOCIAL EXCEPT !.source = "reddit_unavailable"]
  ELSE IF payload.count = 0 THEN [EMPTY_SOCIAL EXCEPT !.source = "reddit"]
  ELSE [score |-> Round1((payload.avg + Point) * 50), mention_count |-> payload.count,
        source |-> "reddit"]

\* sorted(seq, key=headline_count, reverse=True): a stable sort, equal keys
\* keep their order.  Insert x behind every entry whose count is not smaller.
RECURSIVE InsertByCount(_, _)
InsertByCount(sorted, x) ==
  IF sorted = <<>> THEN <<x>>
  ELSE IF Head(sorted).headline_count >= x.headline_count
    THEN <<Head(sorted)>> \o InsertByCount(Tail(sorted), x)
  ELSE <<x>> \o sorted

RECURSIVE SortByCount(_)
SortByCount(seq) ==
  IF seq = <<>> THEN <<>>
  ELSE InsertByCount(SortByCount(SubSeq(seq, 1, Len(seq) - 1)), seq[Len(seq)])

\* The two weights exchanged.
news_blend_swapped(primary_news, secondary_news) ==
  IF primary_news.headline_count > 0 /\ secondary_news.headline_count > 0
    THEN (primary_news.score * 35 + secondary_news.score * 65) \div 100
  ELSE IF primary_news.headline_count > 0 THEN primary_news.score
  ELSE 50 * Point

\* Lines 265-271: x * 0.65 + y * 0.35
news_blend(primary_news, secondary_news) ==
  IF primary_news.headline_count > 0 /\ secondary_news.headline_count > 0
    THEN (primary_news.score * 65 + secondary_news.score * 35) \div 100
  ELSE IF primary_news.headline_count > 0 THEN primary_news.score
  ELSE 50 * Point

\* The provider's own empty reading reported instead of the sentinel.
social_pick_reports_provider(stocktwits, reddit) ==
  IF stocktwits.mention_count > 0 THEN stocktwits
  ELSE IF reddit.mention_count > 0 THEN reddit
  ELSE stocktwits

\* Lines 273-288: StockTwits first, Reddit only when StockTwits has nothing.
social_pick(stocktwits, reddit) ==
  IF stocktwits.mention_count > 0 THEN stocktwits
  ELSE IF reddit.mention_count > 0 THEN reddit
  ELSE EMPTY_SOCIAL

\* feeds = [yfinance, finviz, newsapi, stocktwits, reddit] payloads
get_combined_sentiment(feeds) ==
  LET yf_news == analyze_news("yahoo_finance", feeds.yfinance)
      finviz_news == analyze_news("finviz", feeds.finviz)
      newsapi_news == analyze_news("newsapi", feeds.newsapi)
      news_sources == SortByCount(<<yf_news, finviz_news, newsapi_news>>)
      primary_news == news_sources[1]
      secondary_news == news_sources[2]
      news_score == news_blend(primary_news, secondary_news)
      social == social_pick(analyze_stocktwits(feeds.stocktwits),
                            analyze_reddit_sentiment(feeds.reddit))
      has_social == social.mention_count > 0
      combined_score == IF has_social
                          THEN (news_score * 6 + social.score * 4) \div 10
                          ELSE news_score
  IN  [score |-> Round1(combined_score),
       news |-> primary_news,
       news_secondary |-> IF secondary_news.headline_count > 0
                            THEN <<secondary_news>> ELSE <<>>,
       social |-> social]

(***************************************************************************)
(* analyzers/scorer.py                                                     *)
(***************************************************************************)
calculate_volume_momentum_score(df) ==
  IF len(df) < 20 THEN 50 * Point
  ELSE
    LET C == df.Close
        vol_5 == SumLast(df.Volume, 5)          \* 5 * mean
        vol_20 == SumLast(df.Volume, 20)        \* 20 * mean
        vol_trend == Ratio(4 * vol_5, vol_20)
        trend == IF vol_20 > 0
                   THEN IF RatioAbove(vol_trend, 2, 1) THEN 20
                        ELSE IF RatioAbove(vol_trend, 3, 2) THEN 12
                        ELSE IF RatioAbove(vol_trend, 6, 5) THEN 5
                        ELSE 0
                   ELSE 0
        \* mom_k = (C[-1] / C[-k] - 1) * 100
        mom_5_gt_3 == 100 * iloc(C, 1) > 103 * iloc(C, 5)
        mom_10_gt_5 == 100 * iloc(C, 1) > 105 * iloc(C, 10)
        \* mom_5 > mom_10 / 2 and mom_5 > 0
        accelerating ==
          /\ 2 * (iloc(C, 1) - iloc(C, 5)) * iloc(C, 10)
               > (iloc(C, 1) - iloc(C, 10)) * iloc(C, 5)
          /\ iloc(C, 1) > iloc(C, 5)
        momentum == IF len(df) >= 10
                      THEN (IF mom_5_gt_3 THEN 10 ELSE 0)
                         + (IF mom_10_gt_5 THEN 8 ELSE 0)
                         + (IF accelerating THEN 5 ELSE 0)
                      ELSE 0
        high_52 == MaxRange(C, 1, Len(C))
        low_52 == MinRange(C, 1, Len(C))
        range_52 == high_52 - low_52
        near_high == IF len(df) >= 50 /\ range_52 > 0
                          /\ 5 * (iloc(C, 1) - low_52) > 4 * range_52
                       THEN 8 ELSE 0
    IN  Clamp((50 + trend + momentum + near_high) * Point)

\* Every provider failed or had nothing.
NoFeeds ==
  [yfinance |-> [ok |-> FALSE, count |-> 0, avg |-> 0],
   finviz |-> [ok |-> FALSE, count |-> 0, avg |-> 0],
   newsapi |-> [ok |-> FALSE, count |-> 0, avg |-> 0],
   stocktwits |-> [status |-> "error", count |-> 0, avg |-> 0, bullish |-> 0, bearish |-> 0],
   reddit |-> [status |-> "error", count |-> 0, avg |-> 0]]

\* df.tail(30) as {close, volume} rows
price_history(df) ==
  LET n == len(df)
  IN  [i \in 1..Min(n, 30) |->
         [close |-> df.Close[n - Min(n, 30) + i], volume |-> df.Volume[n - Min(n, 30) + i]]]

\* The weights of technical and sentiment exchanged.
weighted_total_swapped(technical_score, sentiment_score, volume_score) ==
  (technical_score * 3 + sentiment_score * 4 + volume_score * 3) \div 10

\* Lines 72-76: technical * 0.4 + sentiment * 0.3 + volume * 0.3
weighted_total(technical_score, sentiment_score, volume_score) ==
  (technical_score * 4 + sentiment_score * 3 + volume_score * 3) \div 10

\* score_stock on what fetch_stock_data returned for the ticker (df) and what
\* the five sentiment providers answered (feeds).  fetch_stock_info only
\* supplies the descriptive fields name, sector and current_price.
score_stock(ticker, df, feeds) ==
  LET technical == analyze_technical(df)
      technical_score == technical.score
      sentiment == get_combined_sentiment(feeds)
      sentiment_score == sentiment.score
      volume_score == calculate_volume_momentum_score(df)
      total_score == weighted_total(technical_score, sentiment_score, volume_score)
  IN  [ticker |-> ticker,
       total_score |-> Round1(total_score),
       technical_score |-> Round1(technical_score),
       sentiment_score |-> Round1(sentiment_score),
       volume_score |-> Round1(volume_score),
       signals |-> technical.signals,
       indicators |-> technical.indicators,
       sentiment_detail |-> sentiment,
       price_history |-> price_history(df)]

(***************************************************************************)
(* models/predictor.py: extract_features.  None is <<>>, a feature vector  *)
(* is <<record>>.  The volatility entry (the standard deviation of the     *)
(* last 20 daily returns) is a binary floating point value that only the   *)
(* classifier reads; it is left out of the record.                         *)
(***************************************************************************)
extract_features(df) ==
  IF len(df) < 30 THEN <<>>
  ELSE
    LET C == df.Close
        rsi == calculate_rsi(df)
        vol_20 == SumLast(df.Volume, 20)
    IN  <<[current_rsi |-> IF rsi.nan THEN [nan |-> FALSE, gain |-> 1, loss |-> 1] ELSE rsi,
           macd_hist |-> calculate_macd(df).current,
           vol_ratio |-> calculate_volume_ratio(df),
           ret_5 |-> Ratio(100 * (iloc(C, 1) - iloc(C, 5)), iloc(C, 5)),
           ret_10 |-> Ratio(100 * (iloc(C, 1) - iloc(C, 10)), iloc(C, 10)),
           vol_trend |-> IF vol_20 > 0 THEN Ratio(4 * SumLast(df.Volume, 5), vol_20)
                         ELSE Ratio(1, 1)]>>

(***************************************************************************)
(* models/predictor.py: build_training_data.  An example is its feature    *)
(* vector (without the volatility entry, as above) and its label.          *)
(***************************************************************************)
\* df.iloc[:i]; the MACD histogram of the window is an input like the
\* frame's.
Window(df, i) ==
  [Close |-> SubSeq(df.Close, 1, i),
   Volume |-> SubSeq(df.Volume, 1, i),
   histogram |-> df.histogram]

\* Lines 81-96 on window = df.iloc[:i].
training_features(window) ==
  LET C == window.Close
      rsi == calculate_rsi(window)
      vol_20 == SumLast(window.Volume, 20)
  IN  [current_rsi |-> IF rsi.nan THEN [nan |-> FALSE, gain |-> 1, loss |-> 1] ELSE rsi,
       macd_hist |-> calculate_macd(window).current,
       vol_ratio |-> IF vol_20 > 0 THEN Ratio(20 * iloc(window.Volume, 1), vol_20)
                     ELSE Ratio(1, 1),
       ret_5 |-> Ratio(100 * (iloc(C, 1) - iloc(C, 5)), iloc(C, 5)),
       ret_10 |-> Ratio(100 * (iloc(C, 1) - iloc(C, 10)), iloc(C, 10)),
       vol_trend |-> IF vol_20 > 0 THEN Ratio(4 * SumLast(window.Volume, 5), vol_20)
                     ELSE Ratio(1, 1)]

\* The future window taken one bar late, df.iloc[i + 1:i + 6].
surged_window_shifted(df, i) ==
  IF 20 * MaxRange(df.Close, i + 2, i + 6) > 21 * df.Close[i] THEN 1 ELSE 0

\* Lines 98-100: future = df.iloc[i:i + 5] is bars i+1..i+5 counted from 1,
\* current is bar i; (future_max / current - 1) > 0.05.
surged(df, i) ==
  IF 20 * MaxRange(df.Close, i + 1, i + 5) > 21 * df.Close[i] THEN 1 ELSE 0

\* Lines 73-103 for one ticker: nothing below 60 bars or without a history,
\* else one example for every i in range(30, len(df) - 5).
ticker_examples(df) ==
  IF len(df) < 60 THEN <<>>
  ELSE [k \in 1..(len(df) - 35) |->
          [features |-> training_features(Window(df, 29 + k)),
           label |-> surged(df, 29 + k)]]

\* The examples of the tickers, in the order of the tickers.
RECURSIVE build_training_data(_)
build_training_data(dfs) ==
  IF dfs = <<>> THEN <<>>
  ELSE build_training_data(SubSeq(dfs, 1, Len(dfs) - 1)) \o ticker_examples(dfs[Len(dfs)])

(***************************************************************************)
(* Program constants.                                                      *)
(***************************************************************************)
None == 0                 \* Python None for a model handle
NoThread == 0             \* _model_lock not held
MinExamples == 50         \* len(X) < 50 is "Insufficient training data"
NeutralProba == 50 * Point    \* the 50.0 of lines 172, 178, 183 and 186

\* len(X) as build_training_data may return it (0 when every fetch failed).
ExampleCounts == {0, 49, 50}
\* round(proba[0][1] * 100, 1) as a fitted classifier may answer.
ProbaValues == {0, 373000, 100 * Point}

VARIABLES
  training_in_progress,   \* global _training_in_progress
  model,                  \* global _model: None or a classifier id
  model_lock,             \* holder of _model_lock, NoThread when free
  MODEL_PATH,             \* the file: [exists, complete, content]
  writers,                \* trainers holding MODEL_PATH open for writing
  clobbered,              \* writers whose write overlapped another writer's
  nextModel,              \* id of the next classifier to be fitted
  disturbed,              \* history: train_model calls during which another
                          \* call wrote the file or the handle
  t_pc, t_ret, t_X, t_model, t_start,    \* train_model: per call
  r_pc, r_ret, r_loaded, r_features,     \* predict_surge: per call
  q_pc, q_df, q_feeds, q_result, q_features, q_ret,  \* get_stock_analysis: one request
  b_pc,                   \* refresh_predictions: position
  candidates, workers,    \* the tickers of the run, max_workers
  futures,                \* per ticker: state and result of its task
  results, failed,        \* the two lists of lines 136-137
  saved,                  \* rows inserted by save_prediction, in order
  predictions_cache,      \* global _predictions_cache
  response,               \* what the request returned
  call_fn, call_arg, call_out   \* one call of an analyzer function

sharedVars == <<training_in_progress, model, model_lock, MODEL_PATH,
                writers, clobbered, nextModel>>
trainVars == <<t_pc, t_ret, t_X, t_model, t_start>>
readVars == <<r_pc, r_ret, r_loaded, r_features>>
predictorVars == <<sharedVars, trainVars, readVars, disturbed>>
stockVars == <<q_pc, q_df, q_feeds, q_result, q_features, q_ret>>
batchVars == <<b_pc, candidates, workers, futures, results, failed, saved,
               predictions_cache, response>>
\* One call of an analyzer function: its name, its argument and what it
\* returned.
callVars == <<call_fn, call_arg, call_out>>
vars == <<predictorVars, stockVars, batchVars, callVars>>

\* A task of the worker pool: pending, running, finished (its result is what
\* _analyze_single_stock returned, <<>> for None) or collected; met records
\* what the task met when it ran.
NoFuture == [state |-> "none", met |-> <<>>, result |-> <<>>]

(***************************************************************************)
(* The pickle file.  A file opened with "wb" is truncated at once and      *)
(* filled by pickle.dump afterwards; until the dump has finished its       *)
(* content is not a complete pickle.                                       *)
(***************************************************************************)
AbsentFile == [exists |-> FALSE, complete |-> FALSE, content |-> None]
PartialFile == [exists |-> TRUE, complete |-> FALSE, content |-> None]
CompleteFile(m) == [exists |-> TRUE, complete |-> TRUE, content |-> m]

NoRet == [kind |-> "none", value |-> 0]
Returned(v) == [kind |-> "return", value |-> v]
Raised == [kind |-> "raise", value |-> 0]

\* What a run of train_model found when it was called.
Snapshot == [file |-> MODEL_PATH, handle |-> model]
NoSnapshot == [file |-> AbsentFile, handle |-> None]

\* Thread c writes MODEL_PATH or _model: every train_model call that is under
\* way in another thread has been disturbed.
Disturb(c) ==
  disturbed' = disturbed \cup {u \in Trainers \ {c} : t_pc[u] # "idle"}

InitPredictor ==
  /\ training_in_progress = FALSE
  /\ model = None
  /\ model_lock = NoThread
  /\ MODEL_PATH \in {AbsentFile, CompleteFile(1)}
  /\ writers = {}
  /\ clobbered = {}
  /\ nextModel = 2
  /\ disturbed = {}
  /\ t_pc = [t \in Trainers |-> "idle"]
  /\ t_ret = [t \in Trainers |-> "none"]
  /\ t_X = [t \in Trainers |-> 0]
  /\ t_model = [t \in Trainers |-> None]
  /\ t_start = [t \in Trainers |-> NoSnapshot]
  /\ r_pc = [r \in Readers |-> "idle"]
  /\ r_ret = [r \in Readers |-> NoRet]
  /\ r_loaded = [r \in Readers |-> None]
  /\ r_features = [r \in Readers |-> "none"]

\* No request for a single stock is being served.
InitStock ==
  /\ q_pc = "idle"
  /\ q_df = NoneDF
  /\ q_feeds = NoFeeds
  /\ q_result = <<>>
  /\ q_features = <<>>
  /\ q_ret = "none"

\* No refresh is running; the cache is the empty list of main.py:16.
InitBatch ==
  /\ b_pc = "idle"
  /\ candidates = <<>>
  /\ workers = 0
  /\ futures = [t \in Tickers |-> NoFuture]
  /\ results = <<>>
  /\ failed = <<>>
  /\ saved = <<>>
  /\ predictions_cache = <<>>
  /\ response = <<>>

InitCall ==
  /\ call_fn = "none"
  /\ call_arg = <<>>
  /\ call_out = <<>>

Init == InitPredictor /\ InitStock /\ InitBatch /\ InitCall


(***************************************************************************)
(* train_model (models/predictor.py:113-154).                              *)
(***************************************************************************)

\* train_model without the try/finally: the flag is cleared on the two return
\* statements only, and stays set when an exception leaves the function.
FinallyOnReturnOnly(t, status) ==
  /\ training_in_progress' = (status = "raised")
  /\ t_ret' = [t_ret EXCEPT ![t] = status]
  /\ t_pc' = [t_pc EXCEPT ![t] = "done"]

\* The "finally" clause: the flag is cleared on every way out of the try.
Finally(t, status) ==
  /\ training_in_progress' = FALSE
  /\ t_ret' = [t_ret EXCEPT ![t] = status]
  /\ t_pc' = [t_pc EXCEPT ![t] = "done"]

\* Line 117: the guard reads the flag; a call that finds it set returns.
TrainCall(t) ==
  /\ t_pc[t] = "idle"
  /\ nextModel <= MaxModels
  /\ t_start' = [t_start EXCEPT ![t] = Snapshot]
  /\ IF training_in_progress
       THEN /\ t_ret' = [t_ret EXCEPT ![t] = "already_training"]
            /\ t_pc' = [t_pc EXCEPT ![t] = "done"]
       ELSE /\ t_pc' = [t_pc EXCEPT ![t] = "set"]
            /\ UNCHANGED t_ret
  /\ UNCHANGED <<sharedVars, t_X, t_model, readVars>>
  /\ disturbed' = disturbed \ {t}
  /\ UNCHANGED <<stockVars, batchVars, callVars>>

\* Line 120: the flag is set by a separate statement, after the guard.
TrainSetFlag(t) ==
  /\ t_pc[t] = "set"
  /\ training_in_progress' = TRUE
  /\ t_pc' = [t_pc EXCEPT ![t] = "build"]
  /\ UNCHANGED <<model, model_lock, MODEL_PATH, writers, clobbered, nextModel,
                 t_ret, t_X, t_model, t_start, readVars>>
  /\ UNCHANGED <<disturbed, stockVars, batchVars, callVars>>

\* Line 128: build_training_data never raises; it returns what it could fetch.
TrainBuild(t) ==
  /\ t_pc[t] = "build"
  /\ \E n \in ExampleCounts : t_X' = [t_X EXCEPT ![t] = n]
  /\ t_pc' = [t_pc EXCEPT ![t] = "built"]
  /\ UNCHANGED <<sharedVars, t_ret, t_model, t_start, readVars>>
  /\ UNCHANGED <<disturbed, stockVars, batchVars, callVars>>

\* Lines 130-131.
TrainInsufficient(t) ==
  /\ t_pc[t] = "built"
  /\ t_X[t] < MinExamples
  /\ Finally(t, "error")
  /\ UNCHANGED <<model, model_lock, MODEL_PATH, writers, clobbered, nextModel,
                 t_X, t_model, t_start, readVars>>
  /\ UNCHANGED <<disturbed, stockVars, batchVars, callVars>>

\* Lines 133-138: split, fit and score succeed; the new classifier is local.
TrainFit(t) ==
  /\ t_pc[t] = "built"
  /\ t_X[t] >= MinExamples
  /\ t_model' = [t_model EXCEPT ![t] = nextModel]
  /\ nextModel' = nextModel + 1
  /\ t_pc' = [t_pc EXCEPT ![t] = "open"]
  /\ UNCHANGED <<training_in_progress, model, model_lock, MODEL_PATH, writers,
                 clobbered, t_ret, t_X, t_start, readVars>>
  /\ UNCHANGED <<disturbed, stockVars, batchVars, callVars>>

\* Lines 133-138: train_test_split, fit or score raises (there is no except
\* clause, only the finally).
TrainFitRaises(t) ==
  /\ t_pc[t] = "built"
  /\ t_X[t] >= MinExamples
  /\ Finally(t, "raised")
  /\ UNCHANGED <<model, model_lock, MODEL_PATH, writers, clobbered, nextModel,
                 t_X, t_model, t_start, readVars>>
  /\ UNCHANGED <<disturbed, stockVars, batchVars, callVars>>

\* Line 140: open(MODEL_PATH, "wb") truncates the file in place.
TrainOpen(t) ==
  /\ t_pc[t] = "open"
  /\ MODEL_PATH' = PartialFile
  /\ writers' = writers \cup {t}
  /\ clobbered' = IF writers = {} THEN clobbered ELSE clobbered \cup writers \cup {t}
  /\ t_pc' = [t_pc EXCEPT ![t] = "dump"]
  /\ UNCHANGED <<training_in_progress, model, model_lock, nextModel,
                 t_ret, t_X, t_model, t_start, readVars>>
  /\ Disturb(t)
  /\ UNCHANGED <<stockVars, batchVars, callVars>>

\* Line 140: open raises (permissions, missing directory); nothing is written.
TrainOpenRaises(t) ==
  /\ t_pc[t] = "open"
  /\ Finally(t, "raised")
  /\ UNCHANGED <<model, model_lock, MODEL_PATH, writers, clobbered, nextModel,
                 t_X, t_model, t_start, readVars>>
  /\ UNCHANGED <<disturbed, stockVars, batchVars, callVars>>

\* Line 141 and the end of the with: the pickle is complete once the file is
\* closed.  Two writers of the same path mix their bytes: the result is then
\* this writer's pickle or no pickle at all.
TrainDump(t) ==
  /\ t_pc[t] = "dump"
  /\ MODEL_PATH' \in (IF t \in clobbered
                        THEN {CompleteFile(t_model[t]), PartialFile}
                        ELSE {CompleteFile(t_model[t])})
  /\ writers' = writers \ {t}
  /\ clobbered' = clobbered \ {t}
  /\ t_pc' = [t_pc EXCEPT ![t] = "lock"]
  /\ UNCHANGED <<training_in_progress, model, model_lock, nextModel,
                 t_ret, t_X, t_model, t_start, readVars>>
  /\ Disturb(t)
  /\ UNCHANGED <<stockVars, batchVars, callVars>>

\* Line 141: pickle.dump raises (disk full, unpicklable state); the file
\* stays as the truncating open and the bytes written so far left it.
TrainDumpRaises(t) ==
  /\ t_pc[t] = "dump"
  /\ writers' = writers \ {t}
  /\ clobbered' = clobbered \ {t}
  /\ Finally(t, "raised")
  /\ UNCHANGED <<model, model_lock, MODEL_PATH, nextModel,
                 t_X, t_model, t_start, readVars>>
  /\ UNCHANGED <<disturbed, stockVars, batchVars, callVars>>

\* Line 143.
TrainAcquire(t) ==
  /\ t_pc[t] = "lock"
  /\ model_lock = NoThread
  /\ model_lock' = t
  /\ t_pc' = [t_pc EXCEPT ![t] = "assign"]
  /\ UNCHANGED <<training_in_progress, model, MODEL_PATH, writers, clobbered,
                 nextModel, t_ret, t_X, t_model, t_start, readVars>>
  /\ UNCHANGED <<disturbed, stockVars, batchVars, callVars>>

\* Line 144 and the release at the end of the with.
TrainAssign(t) ==
  /\ t_pc[t] = "assign"
  /\ model' = t_model[t]
  /\ model_lock' = NoThread
  /\ t_pc' = [t_pc EXCEPT ![t] = "finally"]
  /\ UNCHANGED <<training_in_progress, MODEL_PATH, writers, clobbered,
                 nextModel, t_ret, t_X, t_model, t_start, readVars>>
  /\ Disturb(t)
  /\ UNCHANGED <<stockVars, batchVars, callVars>>

\* Lines 146-154.
TrainSuccess(t) ==
  /\ t_pc[t] = "finally"
  /\ Finally(t, "success")
  /\ UNCHANGED <<model, model_lock, MODEL_PATH, writers, clobbered, nextModel,
                 t_X, t_model, t_start, readVars>>
  /\ UNCHANGED <<disturbed, stockVars, batchVars, callVars>>

\* The caller (main.py:220-227) has the status, or the exception.
TrainReturn(t) ==
  /\ t_pc[t] = "done"
  /\ t_pc' = [t_pc EXCEPT ![t] = "idle"]
  /\ t_ret' = [t_ret EXCEPT ![t] = "none"]
  /\ t_X' = [t_X EXCEPT ![t] = 0]
  /\ t_model' = [t_model EXCEPT ![t] = None]
  /\ t_start' = [t_start EXCEPT ![t] = NoSnapshot]
  /\ UNCHANGED <<sharedVars, readVars>>
  /\ UNCHANGED <<disturbed, stockVars, batchVars, callVars>>

(***************************************************************************)
(* predict_surge and _load_model (models/predictor.py:163-186, 21-26).     *)
(***************************************************************************)
PartialRead == 0 - 1     \* pickle.load was given an incomplete pickle

PredictDone(r, ret) ==
  /\ r_ret' = [r_ret EXCEPT ![r] = ret]
  /\ r_pc' = [r_pc EXCEPT ![r] = "done"]

\* Line 168: the first test of the global.
PredictCall(r) ==
  /\ r_pc[r] = "idle"
  /\ r_pc' = [r_pc EXCEPT ![r] = IF model = None THEN "exists" ELSE "recheck"]
  /\ UNCHANGED <<sharedVars, trainVars, r_ret, r_loaded, r_features>>
  /\ UNCHANGED <<disturbed, stockVars, batchVars, callVars>>

\* _load_model opening the file without the test of line 24.
PredictOpensUnchecked(r) ==
  /\ r_pc[r] = "exists"
  /\ r_pc' = [r_pc EXCEPT ![r] = "load"]
  /\ UNCHANGED <<sharedVars, trainVars, r_ret, r_loaded, r_features>>
  /\ UNCHANGED <<disturbed, stockVars, batchVars, callVars>>

\* Line 24.
PredictExists(r) ==
  /\ r_pc[r] = "exists"
  /\ r_pc' = [r_pc EXCEPT ![r] = IF MODEL_PATH.exists THEN "load" ELSE "recheck"]
  /\ UNCHANGED <<sharedVars, trainVars, r_ret, r_loaded, r_features>>
  /\ UNCHANGED <<disturbed, stockVars, batchVars, callVars>>

\* Lines 25-26, right-hand side: the file holds a complete pickle.
PredictLoad(r) ==
  /\ r_pc[r] = "load"
  /\ MODEL_PATH.complete
  /\ r_loaded' = [r_loaded EXCEPT ![r] = MODEL_PATH.content]
  /\ r_pc' = [r_pc EXCEPT ![r] = "install"]
  /\ UNCHANGED <<sharedVars, trainVars, r_ret, r_features>>
  /\ UNCHANGED <<disturbed, stockVars, batchVars, callVars>>

\* Lines 25-26: pickle.load on a truncated file raises, and _load_model is
\* called outside the try of predict_surge.
PredictLoadRaises(r) ==
  /\ r_pc[r] = "load"
  /\ ~MODEL_PATH.complete
  /\ r_loaded' = [r_loaded EXCEPT ![r] = PartialRead]
  /\ PredictDone(r, Raised)
  /\ UNCHANGED <<sharedVars, trainVars, r_features>>
  /\ UNCHANGED <<disturbed, stockVars, batchVars, callVars>>

\* Line 26, the assignment to the global (no lock is taken).
PredictInstall(r) ==
  /\ r_pc[r] = "install"
  /\ model' = r_loaded[r]
  /\ r_pc' = [r_pc EXCEPT ![r] = "recheck"]
  /\ UNCHANGED <<training_in_progress, model_lock, MODEL_PATH, writers,
                 clobbered, nextModel, trainVars, r_ret, r_loaded, r_features>>
  /\ Disturb(r)
  /\ UNCHANGED <<stockVars, batchVars, callVars>>

\* Lines 171-172.
PredictNoModel(r) ==
  /\ r_pc[r] = "recheck"
  /\ model = None
  /\ PredictDone(r, Returned(NeutralProba))
  /\ UNCHANGED <<sharedVars, trainVars, r_loaded, r_features>>
  /\ UNCHANGED <<disturbed, stockVars, batchVars, callVars>>

\* Lines 174-178: fetch_stock_data returns None on any failure and
\* extract_features returns None below 30 bars.
PredictFetch(r) ==
  /\ r_pc[r] = "recheck"
  /\ model # None
  /\ \E f \in {"none", "ok"} :
       /\ r_features' = [r_features EXCEPT ![r] = f]
       /\ IF f = "none"
            THEN PredictDone(r, Returned(NeutralProba))
            ELSE /\ r_pc' = [r_pc EXCEPT ![r] = "lock"]
                 /\ UNCHANGED r_ret
  /\ UNCHANGED <<sharedVars, trainVars, r_loaded>>
  /\ UNCHANGED <<disturbed, stockVars, batchVars, callVars>>

\* Line 181.
PredictAcquire(r) ==
  /\ r_pc[r] = "lock"
  /\ model_lock = NoThread
  /\ model_lock' = r
  /\ r_pc' = [r_pc EXCEPT ![r] = "predict"]
  /\ UNCHANGED <<training_in_progress, model, MODEL_PATH, writers, clobbered,
                 nextModel, trainVars, r_ret, r_loaded, r_features>>
  /\ UNCHANGED <<disturbed, stockVars, batchVars, callVars>>

\* Lines 182-184: a classifier that saw one class only answers 50.0.
PredictProba(r) ==
  /\ r_pc[r] = "predict"
  /\ model_lock' = NoThread
  /\ \E p \in ProbaValues \cup {NeutralProba} : PredictDone(r, Returned(p))
  /\ UNCHANGED <<training_in_progress, model, MODEL_PATH, writers, clobbered,
                 nextModel, trainVars, r_loaded, r_features>>
  /\ UNCHANGED <<disturbed, stockVars, batchVars, callVars>>

\* Lines 185-186: predict_proba raises inside the try.
PredictProbaRaises(r) ==
  /\ r_pc[r] = "predict"
  /\ model_lock' = NoThread
  /\ PredictDone(r, Returned(NeutralProba))
  /\ UNCHANGED <<training_in_progress, model, MODEL_PATH, writers, clobbered,
                 nextModel, trainVars, r_loaded, r_features>>
  /\ UNCHANGED <<disturbed, stockVars, batchVars, callVars>>

\* The caller (main.py:42-49, 109-113) has the value, or the exception.
PredictReturn(r) ==
  /\ r_pc[r] = "done"
  /\ r_pc' = [r_pc EXCEPT ![r] = "idle"]
  /\ r_ret' = [r_ret EXCEPT ![r] = NoRet]
  /\ r_loaded' = [r_loaded EXCEPT ![r] = None]
  /\ r_features' = [r_features EXCEPT ![r] = "none"]
  /\ UNCHANGED <<sharedVars, trainVars>>
  /\ UNCHANGED <<disturbed, stockVars, batchVars, callVars>>

Next ==
  \/ \E t \in Trainers : TrainCall(t)
  \/ \E t \in Trainers : TrainSetFlag(t)
  \/ \E t \in Trainers : TrainBuild(t)
  \/ \E t \in Trainers : TrainInsufficient(t)
  \/ \E t \in Trainers : TrainFit(t)
  \/ \E t \in Trainers : TrainFitRaises(t)
  \/ \E t \in Trainers : TrainOpen(t)
  \/ \E t \in Trainers : TrainOpenRaises(t)
  \/ \E t \in Trainers : TrainDump(t)
  \/ \E t \in Trainers : TrainDumpRaises(t)
  \/ \E t \in Trainers : TrainAcquire(t)
  \/ \E t \in Trainers : TrainAssign(t)
  \/ \E t \in Trainers : TrainSuccess(t)
  \/ \E t \in Trainers : TrainReturn(t)
  \/ \E r \in Readers : PredictCall(r)
  \/ \E r \in Readers : PredictExists(r)
  \/ \E r \in Readers : PredictLoad(r)
  \/ \E r \in Readers : PredictLoadRaises(r)
  \/ \E r \in Readers : PredictInstall(r)
  \/ \E r \in Readers : PredictNoModel(r)
  \/ \E r \in Readers : PredictFetch(r)
  \/ \E r \in Readers : PredictAcquire(r)
  \/ \E r \in Readers : PredictProba(r)
  \/ \E r \in Readers : PredictProbaRaises(r)
  \/ \E r \in Readers : PredictReturn(r)

Spec == Init /\ [][Next]_vars

\* The server as it is meant to be used: POST /api/train is called by one
\* client that waits for its answer (main.py:220-227), while GET requests
\* call predict_surge at any time.
TrainStep(t) ==
  \/ TrainCall(t)
  \/ TrainSetFlag(t)
  \/ TrainBuild(t)
  \/ TrainInsufficient(t)
  \/ TrainFit(t)
  \/ TrainFitRaises(t)
  \/ TrainOpen(t)
  \/ TrainOpenRaises(t)
  \/ TrainDump(t)
  \/ TrainDumpRaises(t)
  \/ TrainAcquire(t)
  \/ TrainAssign(t)
  \/ TrainSuccess(t)
  \/ TrainReturn(t)

PredictStep(r) ==
  \/ PredictCall(r)
  \/ PredictExists(r)
  \/ PredictLoad(r)
  \/ PredictLoadRaises(r)
  \/ PredictInstall(r)
  \/ PredictNoModel(r)
  \/ PredictFetch(r)
  \/ PredictAcquire(r)
  \/ PredictProba(r)
  \/ PredictProbaRaises(r)
  \/ PredictReturn(r)

TrainingClient == CHOOSE t \in Trainers : \A u \in Trainers : t <= u

NextServing ==
  \/ TrainStep(TrainingClient)
  \/ \E r \in Readers : PredictStep(r)

SpecServing == Init /\ [][NextServing]_vars

\* The training endpoint called by two clients at once (FastAPI runs the
\* synchronous handler of main.py:220-227 on worker threads).
TrainingClients == {t \in Trainers : t <= TrainingClient + 1}

\* The statements of train_model between the guard and the return to the
\* caller (lines 120-154).
TrainRun(t) ==
  \/ TrainSetFlag(t)
  \/ TrainBuild(t)
  \/ TrainInsufficient(t)
  \/ TrainFit(t)
  \/ TrainFitRaises(t)
  \/ TrainOpen(t)
  \/ TrainOpenRaises(t)
  \/ TrainDump(t)
  \/ TrainDumpRaises(t)
  \/ TrainAcquire(t)
  \/ TrainAssign(t)
  \/ TrainSuccess(t)

\* A thread that is running keeps running: every statement of train_model
\* returns (the fetches of build_training_data end, by data or by failure),
\* and a thread waiting for _model_lock gets it once it has been free often
\* enough.  Nothing obliges a client to call train_model.
FairTrainRun(t) == WF_vars(TrainRun(t)) /\ SF_vars(TrainAcquire(t))

NextTraining == \E t \in TrainingClients : TrainStep(t)

SpecTraining ==
  Init /\ [][NextTraining]_vars /\ \A t \in TrainingClients : FairTrainRun(t)

\* The same two clients while one request calls predict_surge: predict_proba
\* returns, and the with statement of line 181 then releases _model_lock.
ServingReader == CHOOSE r \in Readers : \A u \in Readers : r <= u

NextTrainingServed ==
  \/ \E t \in TrainingClients : TrainStep(t)
  \/ PredictStep(ServingReader)

SpecTrainingServed ==
  /\ Init /\ [][NextTrainingServed]_vars
  /\ \A t \in TrainingClients : FairTrainRun(t)
  /\ WF_vars(PredictProba(ServingReader) \/ PredictProbaRaises(ServingReader))


(***************************************************************************)
(* get_stock_analysis (main.py:104-116): one request for a single ticker.  *)
(* The market data and the provider answers the request meets are drawn    *)
(* from the sets below.                                                    *)
(***************************************************************************)
TailLen == 5                       \* bars of a history that vary
ClosePrices == {10, 11, 20}
FlatClose == 20                    \* the close of every earlier bar
Lengths == {19, 20, 29, 30, 50}    \* around the 20, 30 and 50 bar thresholds
\* <<volume of every bar but the last, volume of the last bar>>
VolumeShapes == {<<0, 0>>, <<10, 10>>, <<10, 200>>}
Histograms == {<<0, 0>>, <<0, 1>>, <<1, 2>>}

Frame(n, tail, shape, hist) ==
  [Close |-> [i \in 1..n |-> IF i <= n - TailLen THEN FlatClose ELSE tail[i - (n - TailLen)]],
   Volume |-> [i \in 1..n |-> IF i < n THEN shape[1] ELSE shape[2]],
   histogram |-> hist]

\* What fetch_stock_data(ticker, "3mo") may return.
DataFrames ==
  {NoneDF} \cup {Frame(n, tail, shape, hist) :
                   n \in Lengths, tail \in [1..TailLen -> ClosePrices],
                   shape \in VolumeShapes, hist \in Histograms}

NewsDown == [ok |-> FALSE, count |-> 0, avg |-> 0]
SocialDown == [status |-> "http", count |-> 0, avg |-> 0, bullish |-> 0, bearish |-> 0]
\* What the five providers may answer to a request.
FeedSets ==
  [yfinance : {[ok |-> TRUE, count |-> 3, avg |-> 3333]},
   finviz : {[ok |-> TRUE, count |-> 8, avg |-> 0 - Point]},
   newsapi : {NewsDown},
   stocktwits : {SocialDown,
                 [status |-> "ok", count |-> 5, avg |-> Point, bullish |-> 1, bearish |-> 0]},
   reddit : {[status |-> "error", count |-> 0, avg |-> 0]}]

\* result["ml_surge_probability"] = ml_prob
SetKey(dict, key, value) ==
  [k \in DOMAIN dict \cup {key} |-> IF k = key THEN value ELSE dict[k]]

StockTicker == 1                   \* the ticker of the request

\* Line 108: score_stock(ticker).
StockScore ==
  /\ q_pc = "idle"
  /\ \E df \in DataFrames, feeds \in FeedSets :
       /\ q_df' = df
       /\ q_feeds' = feeds
       /\ q_result' = <<score_stock(StockTicker, df, feeds)>>
  /\ q_pc' = "scored"
  /\ UNCHANGED <<q_features, q_ret, predictorVars, batchVars, callVars>>

\* Lines 109-110: predict_surge(ticker) returns.  It fetches the history
\* again (predictor.py:174), which gives the history score_stock saw or
\* fails, and answers 50.0 without features, without a classifier or when the
\* classifier raises.
StockPredict ==
  /\ q_pc = "scored"
  /\ \E df \in {q_df, NoneDF} :
       /\ q_features' = extract_features(df)
       /\ \E p \in (IF extract_features(df) = <<>> THEN {} ELSE ProbaValues)
                    \cup {NeutralProba} :
            q_result' = <<SetKey(q_result[1], "ml_surge_probability", p)>>
  /\ q_pc' = "predicted"
  /\ UNCHANGED <<q_df, q_feeds, q_ret, predictorVars, batchVars, callVars>>

\* Line 109: predict_surge(ticker) raises (its lazy load is outside its try).
StockPredictRaises ==
  /\ q_pc = "scored"
  /\ q_ret' = "raised"
  /\ q_pc' = "done"
  /\ UNCHANGED <<q_df, q_feeds, q_result, q_features, predictorVars, batchVars, callVars>>

\* Lines 112-115: the analysis is returned to the client.
StockRespond ==
  /\ q_pc = "predicted"
  /\ q_ret' = "analysis"
  /\ q_pc' = "done"
  /\ UNCHANGED <<q_df, q_feeds, q_result, q_features, predictorVars, batchVars, callVars>>

\* The next request.
StockNext ==
  /\ q_pc = "done"
  /\ q_pc' = "idle"
  /\ q_df' = NoneDF
  /\ q_feeds' = NoFeeds
  /\ q_result' = <<>>
  /\ q_features' = <<>>
  /\ q_ret' = "none"
  /\ UNCHANGED <<predictorVars, batchVars, callVars>>

NextStock ==
  \/ StockScore
  \/ StockPredict
  \/ StockPredictRaises
  \/ StockRespond
  \/ StockNext

\* The state after construction on a machine where no classifier has been
\* saved yet; the file plays no part in a request modelled at this level.
InitNoFile ==
  /\ Init
  /\ MODEL_PATH = AbsentFile

SpecStock == InitNoFile /\ [][NextStock]_vars

(***************************************************************************)
(* refresh_predictions (main.py:118-199) and the tasks it submits,         *)
(* _analyze_single_stock (main.py:42-49).                                  *)
(***************************************************************************)

\* get_candidate_tickers returns sorted(set(...)): distinct tickers in order.
AllCandidates == [i \in 1..NumTickers |-> i]

\* What the task of one ticker may meet: the history and provider answers of
\* the ticker, what predict_surge returns for it, and whether score_stock or
\* predict_surge raises instead.
\* A dip that turns up on a volume spike, and a flat history without volume.
StrongFrame ==
  Frame(30, [i \in 1..TailLen |-> IF i = TailLen THEN 11 ELSE 10], <<10, 200>>, <<0, 1>>)
FlatFrame == Frame(30, [i \in 1..TailLen |-> FlatClose], <<0, 0>>, <<0, 0>>)
SomeFeeds ==
  [NoFeeds EXCEPT !.yfinance = [ok |-> TRUE, count |-> 3, avg |-> 3333],
                  !.finviz = [ok |-> TRUE, count |-> 8, avg |-> 0 - Point]]
MarketCases ==
  {[df |-> NoneDF, feeds |-> NoFeeds, ml |-> NeutralProba, raises |-> "no"],
   [df |-> NoneDF, feeds |-> SomeFeeds, ml |-> NeutralProba, raises |-> "no"],
   [df |-> StrongFrame, feeds |-> SomeFeeds, ml |-> 373000, raises |-> "no"],
   [df |-> FlatFrame, feeds |-> NoFeeds, ml |-> NeutralProba, raises |-> "no"],
   [df |-> FlatFrame, feeds |-> NoFeeds, ml |-> NeutralProba, raises |-> "score_stock"],
   [df |-> StrongFrame, feeds |-> SomeFeeds, ml |-> NeutralProba, raises |-> "predict_surge"]}

\* _analyze_single_stock: the score record with the probability added, or
\* None (<<>>) when anything raised.
analyze_single_stock(ticker, case) ==
  IF case.raises # "no" THEN <<>>
  ELSE <<SetKey(score_stock(ticker, case.df, case.feeds),
                "ml_surge_probability", case.ml)>>

\* results.sort(key=total_score, reverse=True): stable, equal scores keep
\* their order.
RECURSIVE InsertByScore(_, _)
InsertByScore(sorted, x) ==
  IF sorted = <<>> THEN <<x>>
  ELSE IF Head(sorted).total_score >= x.total_score
    THEN <<Head(sorted)>> \o InsertByScore(Tail(sorted), x)
  ELSE <<x>> \o sorted

\* The sort left out: the list stays in completion order.
SortByScoreOmitted(seq) == seq

RECURSIVE SortByScore(_)
SortByScore(seq) ==
  IF seq = <<>> THEN <<>>
  ELSE InsertByScore(SortByScore(SubSeq(seq, 1, Len(seq) - 1)), seq[Len(seq)])

InCandidates(t) == \E i \in 1..Len(candidates) : candidates[i] = t
Position(t) == CHOOSE i \in 1..Len(candidates) : candidates[i] = t

\* Lines 126-141: the candidates are cut to max_stocks and one task per
\* candidate is submitted to a pool of the requested width.
RefreshStart ==
  /\ b_pc = "idle"
  /\ \E max_stocks \in 0..NumTickers, w \in 1..MaxWorkers :
       /\ candidates' = IF max_stocks > 0
                          THEN SubSeq(AllCandidates, 1, max_stocks)
                          ELSE AllCandidates
       /\ workers' = w
       /\ futures' = [t \in Tickers |->
                        IF max_stocks = 0 \/ t <= max_stocks
                          THEN [NoFuture EXCEPT !.state = "pending"]
                          ELSE NoFuture]
  /\ results' = <<>>
  /\ failed' = <<>>
  /\ b_pc' = "collect"
  /\ UNCHANGED <<saved, predictions_cache, response, predictorVars, stockVars, callVars>>

\* A free worker takes the oldest queued task.
TaskStart(t) ==
  /\ b_pc = "collect"
  /\ futures[t].state = "pending"
  /\ Cardinality({u \in Tickers : futures[u].state = "running"}) < workers
  /\ \A u \in Tickers : futures[u].state = "pending" => Position(t) <= Position(u)
  /\ futures' = [futures EXCEPT ![t].state = "running"]
  /\ UNCHANGED <<b_pc, candidates, workers, results, failed, saved,
                 predictions_cache, response, predictorVars, stockVars, callVars>>

\* The task returns: running tasks finish in any order.
TaskFinish(t) ==
  /\ b_pc = "collect"
  /\ futures[t].state = "running"
  /\ \E case \in MarketCases :
       futures' = [futures EXCEPT ![t] = [state |-> "finished",
                                          met |-> <<case>>,
                                          result |-> analyze_single_stock(t, case)]]
  /\ UNCHANGED <<b_pc, candidates, workers, results, failed, saved,
                 predictions_cache, response, predictorVars, stockVars, callVars>>

\* Collect with the failure branch lost: a None result is recorded nowhere.
CollectDropsFailed(t) ==
  /\ b_pc = "collect"
  /\ futures[t].state = "finished"
  /\ IF futures[t].result # <<>>
       THEN results' = Append(results, futures[t].result[1])
       ELSE UNCHANGED results
  /\ UNCHANGED failed
  /\ futures' = [futures EXCEPT ![t].state = "collected"]
  /\ UNCHANGED <<b_pc, candidates, workers, saved, predictions_cache, response,
                 predictorVars, stockVars, callVars>>

\* Lines 142-151: as_completed yields a finished future; its result goes to
\* results and a None to failed.
Collect(t) ==
  /\ b_pc = "collect"
  /\ futures[t].state = "finished"
  /\ IF futures[t].result # <<>>
       THEN /\ results' = Append(results, futures[t].result[1])
            /\ UNCHANGED failed
       ELSE /\ failed' = Append(failed, t)
            /\ UNCHANGED results
  /\ futures' = [futures EXCEPT ![t].state = "collected"]
  /\ UNCHANGED <<b_pc, candidates, workers, saved, predictions_cache, response,
                 predictorVars, stockVars, callVars>>

AllCollected ==
  \A t \in Tickers : InCandidates(t) => futures[t].state = "collected"

\* Line 153, reached when as_completed is exhausted and the pool has shut down.
SortResults ==
  /\ b_pc = "collect"
  /\ AllCollected
  /\ results' = SortByScore(results)
  /\ b_pc' = "save"
  /\ UNCHANGED <<candidates, workers, futures, failed, saved, predictions_cache,
                 response, predictorVars, stockVars, callVars>>

\* Lines 156-168: the next result is saved ...
SavePrediction ==
  /\ b_pc = "save"
  /\ Len(saved) < Len(results)
  /\ saved' = Append(saved, [row |-> <<results[Len(saved) + 1]>>])
  /\ UNCHANGED <<b_pc, candidates, workers, futures, results, failed,
                 predictions_cache, response, predictorVars, stockVars, callVars>>

\* ... or save_prediction raises, which is swallowed (the row is missing).
SavePredictionFails ==
  /\ b_pc = "save"
  /\ Len(saved) < Len(results)
  /\ saved' = Append(saved, [row |-> <<>>])
  /\ UNCHANGED <<b_pc, candidates, workers, futures, results, failed,
                 predictions_cache, response, predictorVars, stockVars, callVars>>

\* Lines 172-181.
UpdateCache ==
  /\ b_pc = "save"
  /\ Len(saved) = Len(results)
  /\ predictions_cache' = results
  /\ b_pc' = "return"
  /\ UNCHANGED <<candidates, workers, futures, results, failed, saved, response,
                 predictorVars, stockVars, callVars>>

\* Lines 183-199: results[:50] with the counts and the failed tickers.
RefreshReturn ==
  /\ b_pc = "return"
  /\ response' = <<[analyzed |-> Len(results),
                    failed |-> Len(failed),
                    failed_tickers |-> failed,
                    predictions |-> SubSeq(results, 1, Min(50, Len(results)))]>>
  /\ b_pc' = "done"
  /\ UNCHANGED <<candidates, workers, futures, results, failed, saved,
                 predictions_cache, predictorVars, stockVars, callVars>>

NextBatch ==
  \/ RefreshStart
  \/ \E t \in Tickers : TaskStart(t)
  \/ \E t \in Tickers : TaskFinish(t)
  \/ \E t \in Tickers : Collect(t)
  \/ SortResults
  \/ SavePrediction
  \/ SavePredictionFails
  \/ UpdateCache
  \/ RefreshReturn

SpecBatch == InitNoFile /\ [][NextBatch]_vars

(***************************************************************************)
(* get_combined_sentiment (sentiment.py:244-302) called on its own, as     *)
(* score_stock calls it, over what the five providers may answer.          *)
(***************************************************************************)
NewsPayloads ==
  {NewsDown,
   [ok |-> TRUE, count |-> 0, avg |-> 0],
   [ok |-> TRUE, count |-> 3, avg |-> 3333],
   [ok |-> TRUE, count |-> 8, avg |-> 0 - 2000],
   [ok |-> TRUE, count |-> 8, avg |-> 5000]}

StocktwitsPayloads ==
  {SocialDown,
   [status |-> "error", count |-> 0, avg |-> 0, bullish |-> 0, bearish |-> 0],
   [status |-> "ok", count |-> 0, avg |-> 0, bullish |-> 0, bearish |-> 0],
   [status |-> "ok", count |-> 5, avg |-> 2000, bullish |-> 1, bearish |-> 0],
   [status |-> "ok", count |-> 12, avg |-> 0 - 1000, bullish |-> 0, bearish |-> 0]}

RedditPayloads ==
  {[status |-> "error", count |-> 0, avg |-> 0],
   [status |-> "http", count |-> 0, avg |-> 0],
   [status |-> "ok", count |-> 0, avg |-> 0],
   [status |-> "ok", count |-> 3, avg |-> 4000],
   [status |-> "ok", count |-> 20, avg |-> 0 - 4000]}

ProviderAnswers ==
  [yfinance : NewsPayloads, finviz : NewsPayloads, newsapi : NewsPayloads,
   stocktwits : StocktwitsPayloads, reddit : RedditPayloads]

\* Line 66 of scorer.py: sentiment = get_combined_sentiment(ticker).
SentimentCall ==
  /\ call_fn = "none"
  /\ \E feeds \in ProviderAnswers :
       /\ call_arg' = feeds
       /\ call_out' = get_combined_sentiment(feeds)
  /\ call_fn' = "get_combined_sentiment"
  /\ UNCHANGED <<predictorVars, stockVars, batchVars>>

\* The caller has the result; the next call starts afresh.
CallReturn ==
  /\ call_fn # "none"
  /\ call_fn' = "none"
  /\ call_arg' = <<>>
  /\ call_out' = <<>>
  /\ UNCHANGED <<predictorVars, stockVars, batchVars>>

NextSentiment ==
  \/ SentimentCall
  \/ CallReturn

SpecSentiment == InitNoFile /\ [][NextSentiment]_vars

(***************************************************************************)
(* analyze_technical (technical.py:65-148) called once per trading day on  *)
(* the history of one ticker as it grows by a bar a day.  The MACD         *)
(* histogram is the input that takes a new value each day; the Close and   *)
(* Volume columns are held at values on which the outcome of no other rule *)
(* changes.  call_arg is the histogram so far, call_out has one entry per  *)
(* analysis.                                                               *)
(***************************************************************************)
MaxBars == 4                       \* days analysed after the first
HistogramValues == {0 - 1, 0, 1, 2}

DailyFrame(n, prev_hist, current_hist) ==
  [Close |-> [i \in 1..n |-> FlatClose],
   Volume |-> [i \in 1..n |-> 0],
   histogram |-> <<prev_hist, current_hist>>]

\* The first analysis is of the 30th bar; call_arg starts with the
\* histogram value of the 29th.
DailyStart ==
  /\ call_fn = "none"
  /\ \E h \in HistogramValues : call_arg' = <<h>>
  /\ call_out' = <<>>
  /\ call_fn' = "analyze_technical"
  /\ UNCHANGED <<predictorVars, stockVars, batchVars>>

DailyAnalysis ==
  /\ call_fn = "analyze_technical"
  /\ Len(call_out) < MaxBars + 1
  /\ \E h \in HistogramValues :
       LET df == DailyFrame(29 + Len(call_arg), call_arg[Len(call_arg)], h)
       IN  /\ call_arg' = Append(call_arg, h)
           /\ call_out' = Append(call_out, analyze_technical(df))
  /\ UNCHANGED <<call_fn, predictorVars, stockVars, batchVars>>

NextDaily ==
  \/ DailyStart
  \/ DailyAnalysis
  \/ CallReturn

SpecDaily == InitNoFile /\ [][NextDaily]_vars

(***************************************************************************)
(* build_training_data (predictor.py:63-110) called by train_model on a    *)
(* list of tickers.  A history is flat at BaseClose but for one bar, which *)
(* closes 4% or 6% higher; a fetch that fails gives no history.            *)
(***************************************************************************)
NumTrainTickers == 2
BaseClose == 100
SpikeCloses == {104, 106}
TrainLengths == {59, 60, 61}

TrainFrame(n, spike_at, spike) ==
  [Close |-> [i \in 1..n |-> IF i = spike_at THEN spike ELSE BaseClose],
   Volume |-> [i \in 1..n |-> 10],
   histogram |-> <<0, 0>>]

TrainFrames ==
  {NoneDF} \cup {TrainFrame(n, at, spike) :
                   n \in TrainLengths, at \in {31, 59}, spike \in SpikeCloses}

\* Line 128 of train_model: X, y = build_training_data(tickers).
BuildCall ==
  /\ call_fn = "none"
  /\ \E dfs \in [1..NumTrainTickers -> TrainFrames] :
       /\ call_arg' = dfs
       /\ call_out' = build_training_data(dfs)
  /\ call_fn' = "build_training_data"
  /\ UNCHANGED <<predictorVars, stockVars, batchVars>>

NextBuild ==
  \/ BuildCall
  \/ CallReturn

SpecBuild == InitNoFile /\ [][NextBuild]_vars

(***************************************************************************)
(* Claims about the classifier's shared state.                             *)
(***************************************************************************)
PastGuard == {"set", "build", "built", "open", "dump", "lock", "assign", "finally"}
InFlight(t) == t_pc[t] \in PastGuard

\* C1: at most one train_model call is past the guard of line 117 and has
\* not yet left through the finally clause: two calls are never both past
\* the guard at once.
C1_AtMostOneTrainingRun ==
  Cardinality({t \in Trainers : InFlight(t)}) <= 1

\* C2: what a reader's lazy load obtains from MODEL_PATH is either nothing or
\* a complete classifier, never a partially written artifact.
C2_ReaderNeverLoadsPartial ==
  \A r \in Readers : r_loaded[r] # PartialRead

\* C3: while a train_model run is in progress or after it has failed (status
\* "error" or an exception), the file and the in-memory handle are what they
\* were when the run started (no other call having written them meanwhile).
C3_FailedRunKeepsModel ==
  \A t \in Trainers :
    (/\ InFlight(t) \/ (t_pc[t] = "done" /\ t_ret[t] \in {"error", "raised"})
     /\ t \notin disturbed)
      => (MODEL_PATH = t_start[t].file /\ model = t_start[t].handle)

\* C4: predict_surge never ends with an exception reaching its caller; every
\* failure ends in the return value 50.0.
C4_PredictNeverRaises ==
  \A r \in Readers : r_pc[r] = "done" => r_ret[r].kind = "return"

\* C5: train_model always ends by returning one of its status values
\* ("error" below 50 examples) and never by raising to its caller.
C5_TrainAlwaysReturnsStatus ==
  \A t \in Trainers :
    t_pc[t] = "done" =>
      /\ t_ret[t] \in {"already_training", "error", "success"}
      /\ (t_ret[t] # "already_training" /\ t_X[t] < MinExamples) => t_ret[t] = "error"

(***************************************************************************)
(* Claims about the batch run.                                             *)
(***************************************************************************)
InResults(t) == \E i \in 1..Len(results) : results[i].ticker = t
InFailed(t) == \E i \in 1..Len(failed) : failed[i] = t
LoopEnded == b_pc \in {"save", "return", "done"}

\* C6: every collected ticker is in exactly one of results and failed, a
\* ticker whose task failed is in failed, a ticker whose task returned a
\* record is in results with that very record, whatever happened to the
\* other tickers; the two lengths add up to the number of candidates once
\* the loop has ended and in the response the run returns.
C6_EachTickerInExactlyOneList ==
  /\ \A t \in Tickers :
       IF futures[t].state = "collected"
         THEN /\ InResults(t) # InFailed(t)
              /\ InFailed(t) <=> (futures[t].result = <<>>)
              /\ futures[t].result # <<>> =>
                   \E i \in 1..Len(results) : results[i] = futures[t].result[1]
         ELSE ~InResults(t) /\ ~InFailed(t)
  /\ Len(results) + Len(failed)
       = Cardinality({t \in Tickers : futures[t].state = "collected"})
  /\ LoopEnded => Len(results) + Len(failed) = Len(candidates)
  /\ response # <<>> =>
       response[1].analyzed + response[1].failed = Len(candidates)

\* A finished run in which two tasks failed and another ticker has its result.
C6_Witness ==
  /\ b_pc = "done"
  /\ Len(failed) = 2
  /\ Len(results) = 1
  /\ Len(candidates) = 3

SortedDescending(seq) ==
  \A i \in 1..(Len(seq) - 1) : seq[i].total_score >= seq[i + 1].total_score

\* The rows save_prediction has stored so far, in order.
RECURSIVE Persisted(_)
Persisted(rows) ==
  IF rows = <<>> THEN <<>>
  ELSE Persisted(SubSeq(rows, 1, Len(rows) - 1)) \o rows[Len(rows)].row

\* C7: whatever is persisted, cached or returned is in non-increasing order
\* of total_score, and nothing is persisted, cached or returned before every
\* submitted task has been collected.
C7_SortedOnlyAfterAllCollected ==
  /\ LoopEnded => SortedDescending(results)
  /\ SortedDescending(Persisted(saved))
  /\ SortedDescending(predictions_cache)
  /\ response # <<>> => SortedDescending(response[1].predictions)
  /\ (saved # <<>> \/ predictions_cache # <<>> \/ response # <<>>) =>
       (AllCollected /\ LoopEnded)

\* One worker, so the tasks completed in candidate order, and the returned
\* list starts with a later candidate that scored strictly higher.
C7_Witness ==
  /\ response # <<>>
  /\ workers = 1
  /\ Len(response[1].predictions) >= 2
  /\ response[1].predictions[1].ticker > response[1].predictions[2].ticker
  /\ response[1].predictions[1].total_score > response[1].predictions[2].total_score
  /\ Len(Persisted(saved)) >= 2
  /\ predictions_cache = results

\* C8: a ticker whose history fetch failed or returned nothing is recorded
\* in failed and is absent from results.
C8_FetchFailureIsRecordedAsFailed ==
  \A t \in Tickers :
    (futures[t].state = "collected" /\ futures[t].met[1].df = NoneDF) =>
      (InFailed(t) /\ ~InResults(t))

(***************************************************************************)
(* Claims about score_stock.                                               *)
(***************************************************************************)
InScoreRange(x) == 0 <= x /\ x <= 100 * Point

\* C9: the technical, sentiment, volume and total scores of every record
\* score_stock produces lie within [0, 100].
C9_ScoresWithinRange ==
  q_result # <<>> =>
    /\ InScoreRange(q_result[1].technical_score)
    /\ InScoreRange(q_result[1].sentiment_score)
    /\ InScoreRange(q_result[1].volume_score)
    /\ InScoreRange(q_result[1].total_score)

\* A history whose rules add up to more than 100 (five bullish signals, the
\* score reported as exactly 100) has been scored.
C9_Witness ==
  /\ q_pc = "scored"
  /\ len(q_df) >= 30
  /\ 50 + RsiRule(q_df).points + MacdRule(q_df).points + BollingerRule(q_df).points
        + VolumeRule(q_df).points + ObvRule(q_df).points + MomentumRule(q_df).points > 100
  /\ q_result[1].technical_score = 100 * Point

\* C10: the reported total_score is round(technical * 0.4 + sentiment * 0.3
\* + volume * 0.3, 1) of the three sub-scores the same record reports, and
\* the triple (80, 60, 70) gives 71.0.
C10_TotalIsWeightedSum ==
  /\ q_result # <<>> =>
       q_result[1].total_score
         = Round1((4 * q_result[1].technical_score + 3 * q_result[1].sentiment_score
                   + 3 * q_result[1].volume_score) \div 10)
  /\ Round1(weighted_total(80 * Point, 60 * Point, 70 * Point)) = 71 * Point

\* A record whose three sub-scores differ and whose sentiment score has a
\* decimal has been produced from a full history.
C10_Witness ==
  /\ q_pc = "scored"
  /\ len(q_df) >= 30
  /\ q_result[1].sentiment_score % Point # 0
  /\ q_result[1].technical_score # q_result[1].sentiment_score
  /\ q_result[1].technical_score # q_result[1].volume_score
  /\ q_result[1].total_score % Point # 0

(***************************************************************************)
(* Claims about predict_surge without a classifier.                        *)
(***************************************************************************)
NoModelPresent == model = None /\ ~MODEL_PATH.exists

\* C12: while no classifier is present, neither in memory nor as a file, no
\* step of predict_surge installs one or touches the file, and the call can
\* only end by returning 50.0.
C12_NoModelReturnsNeutral ==
  [][\A r \in Readers :
       (NoModelPresent /\ r_pc'[r] # r_pc[r]) =>
         /\ model' = None
         /\ MODEL_PATH' = MODEL_PATH
         /\ r_pc'[r] \in {"exists", "recheck", "done", "idle"}
         /\ r_pc'[r] = "done" => r_ret'[r] = Returned(NeutralProba)]_vars

\* A call that went through the test of the file has returned 50.0 with no
\* classifier in memory and no file on disk.
C12_Witness ==
  \E r \in Readers :
    /\ r_pc[r] = "done"
    /\ r_ret[r] = Returned(NeutralProba)
    /\ NoModelPresent
    /\ r_loaded[r] = None

(***************************************************************************)
(* Claims about get_combined_sentiment.                                    *)
(***************************************************************************)
InSentiment == call_fn = "get_combined_sentiment"

\* No provider has a headline or a message, whether it answered or failed.
AllProvidersEmpty(feeds) ==
  /\ \A src \in {"yfinance", "finviz", "newsapi"} :
       ~feeds[src].ok \/ feeds[src].count = 0
  /\ \A src \in {"stocktwits", "reddit"} :
       feeds[src].status # "ok" \/ feeds[src].count = 0

\* C13: when all five providers are empty the combined score is 50.0 and the
\* reported news and social readings have count 0 and source "none".
C13_AllEmptyIsNeutral ==
  (InSentiment /\ AllProvidersEmpty(call_arg)) =>
    /\ call_out.score = 50 * Point
    /\ call_out.news.headline_count = 0
    /\ call_out.news.source = "none"
    /\ call_out.news_secondary = <<>>
    /\ call_out.social.mention_count = 0
    /\ call_out.social.source = "none"

\* Every provider empty in a different way: one news provider down, one with
\* an empty list, StockTwits raising and Reddit answering without posts.
C13_Witness ==
  /\ InSentiment
  /\ AllProvidersEmpty(call_arg)
  /\ ~call_arg.yfinance.ok
  /\ call_arg.finviz.ok
  /\ call_arg.stocktwits.status = "error"
  /\ call_arg.reddit.status = "ok"

\* The three news readings of a call, and the news score blended from them.
NewsReadings(feeds) ==
  <<analyze_news("yahoo_finance", feeds.yfinance),
    analyze_news("finviz", feeds.finviz),
    analyze_news("newsapi", feeds.newsapi)>>
NewsScore(feeds) ==
  news_blend(SortByCount(NewsReadings(feeds))[1], SortByCount(NewsReadings(feeds))[2])

\* The same answers handed out to the news providers in another order.
NewsPermutations(feeds) ==
  {[feeds EXCEPT !.yfinance = feeds[f[1]], !.finviz = feeds[f[2]], !.newsapi = feeds[f[3]]] :
     f \in {g \in [1..3 -> {"yfinance", "finviz", "newsapi"}] :
              \A i, j \in 1..3 : i # j => g[i] # g[j]}}

TopCount(feeds) ==
  Max(NewsReadings(feeds)[1].headline_count,
      Max(NewsReadings(feeds)[2].headline_count, NewsReadings(feeds)[3].headline_count))

\* C14: the blended news score is the same however the three readings are
\* assigned to the providers, and the primary reading has the highest item
\* count of the three.
C14_NewsBlendIgnoresProviderNames ==
  InSentiment =>
    /\ call_out.news.headline_count = TopCount(call_arg)
    /\ \A other \in NewsPermutations(call_arg) :
         /\ NewsScore(other) = NewsScore(call_arg)
         /\ get_combined_sentiment(other).score = call_out.score

\* The same with the readings that have headlines all differing in count.
NewsCountsDistinct(feeds) ==
  \A i, j \in 1..3 :
    (i # j /\ NewsReadings(feeds)[i].headline_count > 0) =>
      NewsReadings(feeds)[i].headline_count # NewsReadings(feeds)[j].headline_count

NewsBlendIgnoresNamesWithoutTies ==
  (InSentiment /\ NewsCountsDistinct(call_arg)) =>
    /\ call_out.news.headline_count = TopCount(call_arg)
    /\ \A other \in NewsPermutations(call_arg) :
         /\ NewsScore(other) = NewsScore(call_arg)
         /\ get_combined_sentiment(other).score = call_out.score

\* C15: the social reading reported and used is the one of StockTwits and
\* Reddit with the higher item count, and the empty sentinel when neither
\* has an item.
C15_SocialIsHigherCount ==
  InSentiment =>
    LET stocktwits == analyze_stocktwits(call_arg.stocktwits)
        reddit == analyze_reddit_sentiment(call_arg.reddit)
    IN  /\ stocktwits.mention_count > reddit.mention_count => call_out.social = stocktwits
        /\ reddit.mention_count > stocktwits.mention_count => call_out.social = reddit
        /\ (stocktwits.mention_count = 0 /\ reddit.mention_count = 0) =>
             call_out.social = EMPTY_SOCIAL

\* The number of news readings with headlines, and the second highest item
\* count of the three.
NonzeroNews(feeds) ==
  Cardinality({i \in 1..3 : NewsReadings(feeds)[i].headline_count > 0})
SecondCount(feeds) ==
  LET R == NewsReadings(feeds)
      k == CHOOSE i \in 1..3 : R[i].headline_count = TopCount(feeds)
      rest == {i \in 1..3 : i # k}
  IN  CHOOSE c \in {R[i].headline_count : i \in rest} :
        \A i \in rest : R[i].headline_count <= c

\* C16: the reported primary and secondary readings are two of the three
\* news readings with the highest item counts; the news score is
\* 0.65 * primary + 0.35 * secondary when both have headlines, the primary
\* score when only one reading has headlines and 50 when none has; the
\* combined score is round(news * 0.6 + social * 0.4, 1) when the reported
\* social reading has items and round(news, 1) otherwise.
C16_CombinedScoreFormula ==
  InSentiment =>
    LET primary == call_out.news
        secondary == call_out.news_secondary
        social == call_out.social
        news == IF NonzeroNews(call_arg) >= 2
                  THEN (65 * primary.score + 35 * secondary[1].score) \div 100
                ELSE IF NonzeroNews(call_arg) = 1 THEN primary.score
                ELSE 50 * Point
    IN  /\ primary.headline_count = TopCount(call_arg)
        /\ \E i \in 1..3 : NewsReadings(call_arg)[i] = primary
        /\ NonzeroNews(call_arg) >= 2 <=> secondary # <<>>
        /\ secondary # <<>> =>
             /\ secondary[1].headline_count = SecondCount(call_arg)
             /\ \E i, j \in 1..3 :
                  /\ i # j
                  /\ NewsReadings(call_arg)[i] = primary
                  /\ NewsReadings(call_arg)[j] = secondary[1]
        /\ call_out.score
             = Round1(IF social.mention_count > 0
                        THEN (6 * news + 4 * social.score) \div 10
                        ELSE news)

\* Two news readings with different counts and scores and a social reading
\* with items were combined into a score between them.
C16_Witness ==
  /\ InSentiment
  /\ call_out.news_secondary # <<>>
  /\ call_out.news.headline_count > call_out.news_secondary[1].headline_count
  /\ call_out.news.score # call_out.news_secondary[1].score
  /\ call_out.social.mention_count > 0
  /\ call_out.social.score # call_out.news.score
  /\ call_out.score % Point # 0

(***************************************************************************)
(* Claims about the MACD rule along a history.                             *)
(***************************************************************************)
InDaily == call_fn = "analyze_technical"
MacdSignals(result) ==
  SelectSeq(result.signals, LAMBDA sig : sig.indicator = "MACD")
CrossoverFired(k) ==
  \E i \in 1..Len(call_out[k].signals) :
    call_out[k].signals[i] = Signal("bullish", "MACD", "MACD bullish crossover")
IncreasingFired(k) ==
  \E i \in 1..Len(call_out[k].signals) :
    call_out[k].signals[i] = Signal("bullish", "MACD", "MACD momentum increasing")
\* The score of a flat history without volume apart from the MACD rule.
FlatScore == analyze_technical(DailyFrame(30, 0, 0)).score

\* C17: on every analysed bar the crossover rule fires (15 points and its
\* signal) iff the histogram is > 0 and was <= 0 on the bar before; it never
\* fires on two consecutive bars and never together with the "momentum
\* increasing" rule.
C17_CrossoverOncePerCrossing ==
  InDaily =>
    \A k \in 1..Len(call_out) :
      /\ CrossoverFired(k) <=> (call_arg[k + 1] > 0 /\ call_arg[k] <= 0)
      /\ CrossoverFired(k) <=> call_out[k].score = FlatScore + 15 * Point
      /\ IncreasingFired(k) <=> call_out[k].score = FlatScore + 8 * Point
      /\ ~(CrossoverFired(k) /\ IncreasingFired(k))
      /\ Len(MacdSignals(call_out[k])) <= 1
      /\ (k > 1 /\ CrossoverFired(k)) => ~CrossoverFired(k - 1)

\* The histogram crossed upwards, kept rising, fell back below zero and
\* crossed again: the rule fired on the first and the last bar only.
C17_Witness ==
  /\ InDaily
  /\ Len(call_out) = 4
  /\ CrossoverFired(1)
  /\ IncreasingFired(2)
  /\ ~CrossoverFired(3) /\ ~IncreasingFired(3)
  /\ CrossoverFired(4)

(***************************************************************************)
(* Claims about the rules of analyze_technical.                            *)
(***************************************************************************)
MomentumFired(result) ==
  \E i \in 1..Len(result.signals) :
    result.signals[i] = Signal("bullish", "Momentum", "5-day momentum")

\* C18: for a history of at least 30 bars the momentum rule adds 8 points
\* and its bullish signal iff the last close is more than 5% above the close
\* 5 bars before it.
C18_MomentumOverFiveBars ==
  (q_pc # "idle" /\ len(q_df) >= 30) =>
    LET five_bars_gain == 100 * iloc(q_df.Close, 1) > 105 * iloc(q_df.Close, 6)
    IN  /\ MomentumFired(q_result[1]) <=> five_bars_gain
        /\ MomentumRule(q_df).points = (IF five_bars_gain THEN 8 ELSE 0)

IndicatorOrder == <<"RSI", "MACD", "Bollinger", "Volume", "OBV", "Momentum">>
IndicatorRank(indicator) == CHOOSE k \in 1..Len(IndicatorOrder) : IndicatorOrder[k] = indicator

\* C19: for a history of at least 30 bars every signal names one of the six
\* indicators and the signals appear in strictly increasing rank of the
\* order RSI, MACD, Bollinger, Volume, OBV, Momentum, so that no indicator
\* has two signals.
C19_SignalsInRuleOrder ==
  (q_pc # "idle" /\ len(q_df) >= 30) =>
    LET signals == q_result[1].signals
    IN  /\ \A i \in 1..Len(signals) :
             \E k \in 1..Len(IndicatorOrder) : IndicatorOrder[k] = signals[i].indicator
        /\ \A i, j \in 1..Len(signals) :
             i < j => IndicatorRank(signals[i].indicator) < IndicatorRank(signals[j].indicator)
        /\ Len(signals) <= Len(IndicatorOrder)

\* A history on which five rules fired, among them the first and the last.
C19_Witness ==
  /\ q_pc = "scored"
  /\ len(q_df) >= 30
  /\ Len(q_result[1].signals) >= 5
  /\ q_result[1].signals[1].indicator = "RSI"
  /\ MomentumFired(q_result[1])

(***************************************************************************)
(* Claims about build_training_data.                                       *)
(***************************************************************************)
InBuild == call_fn = "build_training_data"

\* The number of examples a history owes: one for every i with
\* 30 <= i < len - 5 when it has at least 60 bars, none otherwise.
ExamplesOwed(df) == IF len(df) >= 60 THEN len(df) - 35 ELSE 0
RECURSIVE ExamplesBefore(_, _)
ExamplesBefore(dfs, t) ==
  IF t <= 1 THEN 0 ELSE ExamplesBefore(dfs, t - 1) + ExamplesOwed(dfs[t - 1])

\* The history with every bar after the i-th replaced.
Blanked(df, i) ==
  [Close |-> [j \in 1..len(df) |-> IF j <= i THEN df.Close[j] ELSE 1],
   Volume |-> [j \in 1..len(df) |-> IF j <= i THEN df.Volume[j] ELSE 0],
   histogram |-> df.histogram]

C11_ShortHistorySentinels ==
  q_pc # "idle" =>
    /\ len(q_df) < 30 =>
         /\ analyze_technical(q_df)
              = [score |-> 0, signals |-> <<>>, indicators |-> EmptyDict]
         /\ q_result[1].technical_score = 0
         /\ q_result[1].signals = <<>>
         /\ q_result[1].indicators = EmptyDict
         /\ extract_features(q_df) = <<>>
         /\ q_features = <<>>
         /\ q_pc = "predicted" => q_result[1].ml_surge_probability = NeutralProba
    /\ len(q_df) < 20 =>
         /\ calculate_volume_momentum_score(q_df) = 50 * Point
         /\ q_result[1].volume_score = 50 * Point

\* A request over a 29-bar history whose last bar jumps on a volume spike
\* has been scored and predicted: the rules would have fired on it.
C11_Witness ==
  /\ q_pc = "predicted"
  /\ len(q_df) = 29
  /\ VolumeRule(q_df).points > 0
  /\ MomentumRule(q_df).points > 0
  /\ q_result[1].volume_score > 50 * Point


(***************************************************************************)
(* Claims about the training flag and the lazy load.                       *)
(***************************************************************************)
\* A train_model call that set the flag and has not left the try yet.
Running(t) == t_pc[t] \in PastGuard \ {"set"}

\* The step by which a call that passed the guard ends: a return or an
\* exception out of the try.
RunEnds(t) == t_pc[t] \in PastGuard /\ t_pc'[t] = "done"

\* The step by which a call is rejected at the guard.
Rejected(t) == t_pc[t] = "idle" /\ t_pc'[t] = "done"

\* C21: whenever a train_model call that passed the guard ends (with
\* "success", with "error" or with an exception) the flag is false right
\* after; the flag is never set while no call is running; every call that
\* has set the flag does end, so a later call finds the flag clear; and a
\* call rejected with "already_training" has found the flag set and leaves
\* it set.
C21_FlagReleasedByItsRun ==
  /\ [][\A t \in Trainers :
          /\ RunEnds(t) =>
                /\ ~training_in_progress'
                /\ t_ret'[t] \in {"success", "error", "raised"}
          /\ Rejected(t) =>
                /\ t_ret'[t] = "already_training"
                /\ training_in_progress
                /\ training_in_progress']_vars
  /\ [](training_in_progress => \E t \in Trainers : Running(t))
  /\ \A t \in Trainers :
        Running(t) ~> (t_pc[t] = "done" /\ ~training_in_progress)

\* A call has been rejected while another call was running, and that run
\* has since ended by an exception with the flag clear.
C21_Witness ==
  \E t, u \in Trainers :
    /\ t_pc[t] = "done" /\ t_ret[t] = "already_training"
    /\ t_pc[u] = "done" /\ t_ret[u] = "raised"
    /\ ~training_in_progress

\* C22: once a train_model run has returned "success" and no call is past
\* the guard, the classifier in memory is the one that run fitted, which is
\* also the one in the file: a lazy load that read the file before the run
\* wrote it does not put the older classifier back over the newer one.
C22_ServesLatestModel ==
  \A t \in Trainers :
    (/\ t_pc[t] = "done" /\ t_ret[t] = "success"
     /\ \A u \in Trainers : ~InFlight(u))
      => (model = t_model[t] /\ MODEL_PATH = CompleteFile(model))

=============================================================================
